---- MODULE Spec2Model ----
(***************************************************************************)
(* Model of pkg/config/workflow/flow.go: ModelTransformClient.             *)
(*                                                                         *)
(* One invocation of TransformModel, TransformModelFromFile or             *)
(* TransformModelFromRequest is followed statement by statement.  The      *)
(* model stream is an io.Reader (possibly an io.Seeker), the multipart     *)
(* body is the byte buffer the multipart.Writer fills, written here as a   *)
(* sequence of tokens (delimiter lines, part headers, data), and the HTTP  *)
(* exchange is one call whose outcome the environment chooses.             *)
(***************************************************************************)
EXTENDS Naturals, Sequences, FiniteSets, TLC

\* ------------------------------------------------------------------ bounds
MaxLen == 2         \* longest model stream, in bytes
MaxErrOrd == 2      \* Read calls 1..MaxErrOrd of a stream may return an error
MaxPath == 2        \* longest file path, in characters

\* --------------------------------------------------------- program constants
PreviewSize == 200  \* make([]byte, 200)
StatusOK == 200     \* http.StatusOK

\* ------------------------------------------------------------ input domains
Bytes == {"A", "B"}
TargetFormats == {"json"}
FileNames == {<<>>, <<"a", "b">>}
\* The source format a caller of the specified operation may want to send.
\* No signature of flow.go takes it.
SourceFormats == {"", "xml"}
Sep == "/"
PathChars == {Sep, "a", "b"}
Statuses == {200, 201, 403}
Bodies == {"", "payload"}
Causes == {"forbidden"}

SeqsUpTo(S, n) == UNION {[1..k -> S] : k \in 0..n}
Min(a, b) == IF a < b THEN a ELSE b

NilBytes == "<nil>"
NilErr == <<>>
NoStream == [data |-> <<>>, pos |-> 0, isSeeker |-> FALSE, seekOK |-> FALSE,
             errReads |-> {}]
NoResp == [status |-> 0, body |-> ""]
NoReq == [authorization |-> <<>>, contentType |-> "", body |-> <<>>]
NoResult == [bytes |-> NilBytes, err |-> NilErr]

VARIABLES
    pc,           \* the statement the invocation is at
    entry,        \* the exported method the caller invoked
    stream,       \* the model stream: data, position, seekability, failing reads
    initPos,      \* the position of the stream when the caller handed it over
    nreads,       \* Read calls made on the stream in this invocation
    readLog,      \* indices of the stream's bytes, in the order reads returned them
    seekCalls,    \* Seek calls made on the stream in this invocation
    targetFormat, \* parameter targetFormat
    filename,     \* parameter filename
    wantSource,   \* the source format the caller wants sent (never read by the code)
    path,         \* parameter filePath of TransformModelFromFile
    file,         \* the os.File handle: "none", "failed" (os.Open erred), "open", "closed"
    buf,          \* bytes.Buffer behind the multipart.Writer
    httpCalls,    \* calls of TransformSourceModelToTargetModelWithResponse
    sent,         \* the request as the request editor left it
    resp,         \* the response obtained
    result,       \* the ([]byte, error) returned
    cause,        \* what errorsx.HandleCommonErrors returned ("" for nil)
    retAt,        \* which return statement was taken
    log           \* vc.Logger.Errorf messages of this invocation

vars == <<pc, entry, stream, initPos, nreads, readLog, seekCalls, targetFormat,
          filename, wantSource, path, file, buf, httpCalls, sent, resp, cause,
          result, retAt, log>>

\* ------------------------------------------------------- multipart encoding
Tok(k, name, fname, val) == [k |-> k, name |-> name, fname |-> fname, val |-> val]
\* "--<boundary>" line opening a part
Boundary == Tok("boundary", "", <<>>, "")
\* Content-Disposition: form-data; name=..; filename=..  + Content-Type
FileHeader(name, fname) == Tok("disposition", name, fname, "application/octet-stream")
\* Content-Disposition: form-data; name=..
FieldHeader(name) == Tok("disposition", name, <<>>, "")
Data(b) == Tok("data", "", <<>>, b)
\* "--<boundary>--" line closing the body
CloseDelim == Tok("close", "", <<>>, "")

DataToks(bs) == [i \in 1..Len(bs) |-> Data(bs[i])]

\* writer.CreateFormFile(fieldname, filename)
CreateFormFileToks(fieldname, fname) == <<Boundary, FileHeader(fieldname, fname)>>
\* writer.WriteField(fieldname, value)
WriteFieldToks(fieldname, value) == <<Boundary, FieldHeader(fieldname), Data(value)>>

\* What a multipart reader gets back from a body: its parts, in order.
EmptyPart == [name |-> "", filename |-> <<>>, ctype |-> "", content |-> <<>>]
RECURSIVE ParseFrom(_, _, _)
ParseFrom(toks, i, parts) ==
    IF i > Len(toks) THEN parts
    ELSE LET t == toks[i] IN
         IF t.k = "boundary" THEN ParseFrom(toks, i + 1, Append(parts, EmptyPart))
         ELSE IF parts = <<>> \/ t.k = "close" THEN ParseFrom(toks, i + 1, parts)
         ELSE IF t.k = "disposition"
              THEN ParseFrom(toks, i + 1,
                     [parts EXCEPT ![Len(parts)] =
                        [@ EXCEPT !.name = t.name, !.filename = t.fname,
                                  !.ctype = t.val]])
         ELSE ParseFrom(toks, i + 1,
                     [parts EXCEPT ![Len(parts)] =
                        [@ EXCEPT !.content = Append(@, t.val)]])
Parts(body) == ParseFrom(body, 1, <<>>)
PartNames(body) == [i \in 1..Len(Parts(body)) |-> Parts(body)[i].name]
Finalized(body) == body # <<>> /\ body[Len(body)].k = "close"

\* ------------------------------------------------------------------ errors
\* errorsx.G11NError("unable to transform model")
DefaultErr == <<"unable to transform model">>
\* errorsx.G11NError("unable to transform the model; err=%s", err.Error())
ClassifiedErr(c) == <<"unable to transform the model; err=", c>>
\* Variant: the message leaves the response body out.
UnclassifiedErrNoBody(code, body) ==
    <<"unable to transform the model; code=", ToString(code)>>

\* errorsx.G11NError("unable to transform the model; code=%d, body=%s", ...)
UnclassifiedErr(code, body) ==
    <<"unable to transform the model; code=", ToString(code), ", body=", body>>
\* errorsx.G11NError("unable to open model file; err=%v", err)
OpenErr == <<"unable to open model file; err=", "open failed">>

\* ------------------------------------------------------------------ stream
Remaining(s) == Len(s.data) - s.pos
\* seeker.Seek(0, 0): the returned error is dropped
SeekStart(s) == IF s.seekOK THEN [s EXCEPT !.pos = 0] ELSE s
\* indices of the k bytes a read at s.pos returns
ReadIdx(s, k) == [i \in 1..k |-> s.pos + i]
ReadBytes(s, k) == [i \in 1..k |-> s.data[s.pos + i]]
Advance(s, k) == [s EXCEPT !.pos = @ + k]

\* ---------------------------------------------------------------- filepath
RECURSIVE StripTrailing(_)
StripTrailing(p) ==
    IF Len(p) > 0 /\ p[Len(p)] = Sep THEN StripTrailing(SubSeq(p, 1, Len(p) - 1))
    ELSE p
RECURSIVE LastSep(_, _)
LastSep(p, i) == IF i >= 1 /\ p[i] # Sep THEN LastSep(p, i - 1) ELSE i
\* filepath.Base(filePath)
Base(p) ==
    IF p = <<>> THEN <<".">>
    ELSE LET q == StripTrailing(p)
             i == LastSep(q, Len(q))
             r == IF i >= 1 THEN SubSeq(q, i + 1, Len(q)) ELSE q
         IN  IF r = <<>> THEN <<Sep>> ELSE r

\* -------------------------------------------------------------------- Init
Init ==
    /\ pc = "idle"
    /\ entry = "none"
    /\ stream = NoStream
    /\ initPos = 0
    /\ nreads = 0
    /\ readLog = <<>>
    /\ seekCalls = 0
    /\ targetFormat = ""
    /\ filename = <<>>
    /\ wantSource = ""
    /\ path = <<>>
    /\ file = "none"
    /\ buf = <<>>
    /\ httpCalls = 0
    /\ sent = NoReq
    /\ resp = NoResp
    /\ cause = ""
    /\ result = NoResult
    /\ retAt = "none"
    /\ log = <<>>

Streams ==
    {s \in [data : SeqsUpTo(Bytes, MaxLen), pos : 0..MaxLen, isSeeker : BOOLEAN,
            seekOK : BOOLEAN, errReads : SUBSET (1..MaxErrOrd)] :
        /\ s.pos <= Len(s.data)
        /\ (s.seekOK => s.isSeeker)}

\* The locals of TransformModel as its first statements leave them
\* (var buf bytes.Buffer; writer := multipart.NewWriter(&buf)).
Enter(e, s, tf, fn, sf, p, f) ==
    /\ cause' = ""
    /\ entry' = e
    /\ stream' = s
    /\ initPos' = s.pos
    /\ nreads' = 0
    /\ readLog' = <<>>
    /\ seekCalls' = 0
    /\ targetFormat' = tf
    /\ filename' = fn
    /\ wantSource' = sf
    /\ path' = p
    /\ file' = f
    /\ buf' = <<>>
    /\ httpCalls' = 0
    /\ sent' = NoReq
    /\ resp' = NoResp
    /\ log' = <<>>

\* A caller invokes TransformModel(ctx, modelFile, targetFormat, filename).
TransformModel ==
    /\ pc = "idle"
    /\ \E s \in Streams, tf \in TargetFormats, fn \in FileNames, sf \in SourceFormats :
          Enter("TransformModel", s, tf, fn, sf, <<>>, "none")
    /\ result' = NoResult
    /\ retAt' = "none"
    /\ pc' = "create"

\* TransformModelFromRequest(ctx, req): req.ModelFile, req.TargetFormat, req.FileName.
TransformModelFromRequest ==
    /\ pc = "idle"
    /\ \E s \in Streams, tf \in TargetFormats, fn \in FileNames, sf \in SourceFormats :
          Enter("TransformModelFromRequest", s, tf, fn, sf, <<>>, "none")
    /\ result' = NoResult
    /\ retAt' = "none"
    /\ pc' = "create"

\* TransformModelFromFile(ctx, filePath, targetFormat): os.Open, defer file.Close(),
\* filepath.Base, then TransformModel.  An *os.File is an io.Seeker whatever it
\* names; Seek works on a regular file and fails on a pipe or a terminal.
\* Variant: the error of os.Open is dropped and TransformModel is called.
OpenFailedIgnored(p, tf, sf) ==
    /\ Enter("TransformModelFromFile", NoStream, tf, Base(p), sf, p, "failed")
    /\ result' = NoResult
    /\ retAt' = "none"
    /\ pc' = "create"

\* os.Open(filePath) failed: return nil, G11NError("unable to open model file; ...")
OpenFailed(p, tf, sf) ==
    /\ Enter("TransformModelFromFile", NoStream, tf, <<>>, sf, p, "failed")
    /\ result' = [bytes |-> NilBytes, err |-> OpenErr]
    /\ retAt' = "open"
    /\ pc' = "done"

TransformModelFromFile ==
    /\ pc = "idle"
    /\ \E p \in SeqsUpTo(PathChars, MaxPath), tf \in TargetFormats, sf \in SourceFormats :
          \/ OpenFailed(p, tf, sf)
          \/ /\ p # <<>>
             /\ \E s \in Streams :
                   /\ s.isSeeker /\ s.pos = 0
                   /\ Enter("TransformModelFromFile", s, tf, Base(p), sf, p, "open")
             /\ result' = NoResult
             /\ retAt' = "none"
             /\ pc' = "create"

Token == "tok"
\* params.Authorization and what the request editor sets on the request
Request(body) == [authorization |-> <<"Bearer ", Token>>,
                  contentType |-> "multipart/form-data; boundary=b",
                  body |-> body]

\* return nil, defaultErr after vc.Logger.Errorf(msg)
Fail(at, msg) ==
    /\ log' = Append(log, msg)
    /\ result' = [bytes |-> NilBytes, err |-> DefaultErr]
    /\ retAt' = at
    /\ pc' = "return"

\* part, err := writer.CreateFormFile("model", filename)
CreateFormFile ==
    /\ pc = "create"
    /\ \/ /\ Fail("create", "Unable to create form file")
          /\ UNCHANGED buf
       \/ /\ buf' = buf \o CreateFormFileToks("model", filename)
          /\ pc' = "preview"
          /\ UNCHANGED <<result, retAt, log>>
    /\ UNCHANGED <<entry, stream, initPos, nreads, readLog, seekCalls, targetFormat,
                   filename, wantSource, path, file, httpCalls, sent, resp, cause>>

\* The stream after modelFile.Read(previewBytes) returned k bytes and
\* seeker.Seek(0, 0) was called; both errors are dropped.
AfterPreview(s, k) == SeekStart(Advance(s, k))

\* if seeker, ok := modelFile.(io.Seeker); ok { Read a preview; Seek(0, 0) }
Preview ==
    /\ pc = "preview"
    /\ \/ /\ ~stream.isSeeker
          /\ UNCHANGED <<stream, nreads, readLog, seekCalls>>
       \/ /\ stream.isSeeker
          /\ nreads' = nreads + 1
          /\ seekCalls' = seekCalls + 1
          /\ \E k \in 0..Min(PreviewSize, Remaining(stream)) :
                /\ (k = 0) <=> (nreads + 1 \in stream.errReads \/ Remaining(stream) = 0)
                /\ stream' = AfterPreview(stream, k)
                /\ readLog' = readLog \o ReadIdx(stream, k)
    /\ pc' = "copy"
    /\ UNCHANGED <<entry, initPos, targetFormat, filename, wantSource, path, file, buf,
                   httpCalls, sent, resp, cause, result, retAt, log>>

\* bytesWritten, err := io.Copy(part, modelFile): one Read of its loop
Copy ==
    /\ pc = "copy"
    /\ nreads' = nreads + 1
    /\ \/ /\ nreads + 1 \in stream.errReads
          /\ Fail("copy", "Unable to copy model file")
          /\ UNCHANGED <<stream, readLog, buf>>
       \/ /\ nreads + 1 \notin stream.errReads
          /\ Remaining(stream) = 0
          /\ pc' = "field"
          /\ UNCHANGED <<stream, readLog, buf, result, retAt, log>>
       \/ /\ nreads + 1 \notin stream.errReads
          /\ \E k \in 1..Remaining(stream) :
                /\ buf' = buf \o DataToks(ReadBytes(stream, k))
                /\ stream' = Advance(stream, k)
                /\ readLog' = readLog \o ReadIdx(stream, k)
          /\ pc' = "copy"
          /\ UNCHANGED <<result, retAt, log>>
    /\ UNCHANGED <<entry, initPos, seekCalls, targetFormat, filename, wantSource, path,
                   file, httpCalls, sent, resp, cause>>

\* Variant: a sourceformat field is written as well.
FieldsWithSourceFormat(tf) ==
    WriteFieldToks("targetformat", tf) \o WriteFieldToks("sourceformat", "xml")

\* The fields written after the model part.
FieldsAfterModel(tf) == WriteFieldToks("targetformat", tf)

\* err = writer.WriteField("targetformat", targetFormat)
WriteField ==
    /\ pc = "field"
    /\ \/ /\ Fail("field", "Unable to write targetformat field")
          /\ UNCHANGED buf
       \/ /\ buf' = buf \o FieldsAfterModel(targetFormat)
          /\ pc' = "close"
          /\ UNCHANGED <<result, retAt, log>>
    /\ UNCHANGED <<entry, stream, initPos, nreads, readLog, seekCalls, targetFormat,
                   filename, wantSource, path, file, httpCalls, sent, resp, cause>>

\* err = writer.Close()
CloseWriter ==
    /\ pc = "close"
    /\ \/ /\ Fail("close", "Unable to close multipart writer")
          /\ UNCHANGED buf
       \/ /\ buf' = Append(buf, CloseDelim)
          /\ pc' = "dispatch"
          /\ UNCHANGED <<result, retAt, log>>
    /\ UNCHANGED <<entry, stream, initPos, nreads, readLog, seekCalls, targetFormat,
                   filename, wantSource, path, file, httpCalls, sent, resp, cause>>

\* Variant: every 2xx status is taken as success.
ResultForAny2xx(st, b, c) ==
    IF st \in 200..299 THEN [bytes |-> b, err |-> NilErr]
    ELSE IF c # "" THEN [bytes |-> NilBytes, err |-> <<"unable to transform the model; err=", c>>]
    ELSE [bytes |-> NilBytes,
          err |-> <<"unable to transform the model; code=", ToString(st), ", body=", b>>]

\* if resp.StatusCode() != http.StatusOK { ... } return resp.Body, nil
ResultFor(st, b, c) ==
    IF st = StatusOK THEN [bytes |-> b, err |-> NilErr]
    ELSE IF c # "" THEN [bytes |-> NilBytes, err |-> ClassifiedErr(c)]
    ELSE [bytes |-> NilBytes, err |-> UnclassifiedErr(st, b)]
RetFor(st, c) ==
    IF st = StatusOK THEN "ok" ELSE IF c # "" THEN "classified" ELSE "unclassified"
LogFor(st, c) ==
    IF st = StatusOK THEN <<>> ELSE <<"unable to transform the model">>

\* Variant: a failed transport is tried once more.
AttemptsWithRetry(transportFailed) == IF transportFailed THEN 2 ELSE 1

\* How many times the client method is called for one body.
Attempts(transportFailed) == 1

\* resp, err := client.TransformSourceModelToTargetModelWithResponse(ctx, params,
\* reqEditors...) and the handling of its outcome
Dispatch ==
    /\ pc = "dispatch"
    /\ sent' = Request(buf)
    /\ \/ /\ httpCalls' = httpCalls + Attempts(TRUE)
          /\ resp' = NoResp
          /\ cause' = ""
          /\ Fail("transport", "Unable to transform model")
       \/ /\ httpCalls' = httpCalls + Attempts(FALSE)
          /\ \E st \in Statuses, b \in Bodies, c \in Causes \cup {""} :
                /\ (st = StatusOK) => (c = "")
                /\ resp' = [status |-> st, body |-> b]
                /\ cause' = c
                /\ result' = ResultFor(st, b, c)
                /\ retAt' = RetFor(st, c)
                /\ log' = log \o LogFor(st, c)
          /\ pc' = "return"
    /\ UNCHANGED <<entry, stream, initPos, nreads, readLog, seekCalls, targetFormat,
                   filename, wantSource, path, file, buf>>

\* Variant: no deferred Close.
DeferredNoClose(f) == f

\* The handle after the deferred file.Close() of TransformModelFromFile.
Deferred(f) == IF f = "open" THEN "closed" ELSE f

\* TransformModel returns; TransformModelFromFile's defer runs.
Return ==
    /\ pc = "return"
    /\ file' = Deferred(file)
    /\ pc' = "done"
    /\ UNCHANGED <<entry, stream, initPos, nreads, readLog, seekCalls, targetFormat,
                   filename, wantSource, path, buf, httpCalls, sent, resp, cause,
                   result, retAt, log>>

\* The caller has the result; the client holds nothing of the invocation and is
\* ready for the next one.
Release ==
    /\ pc = "done"
    /\ pc' = "idle"
    /\ Enter("none", NoStream, "", <<>>, "", <<>>, "none")
    /\ result' = NoResult
    /\ retAt' = "none"

Next ==
    \/ TransformModel
    \/ TransformModelFromRequest
    \/ TransformModelFromFile
    \/ CreateFormFile
    \/ Preview
    \/ Copy
    \/ WriteField
    \/ CloseWriter
    \/ Dispatch
    \/ Return
    \/ Release

Spec == Init /\ [][Next]_vars

\* ================================================================== claims
Finished == pc \in {"return", "done"}
ReachedDispatch == pc = "dispatch" \/ httpCalls > 0
InTransformModel ==
    pc \in {"create", "preview", "copy", "field", "close", "dispatch", "return"}
\* The content of the stream as the caller handed it over.
Handed == SubSeq(stream.data, initPos + 1, Len(stream.data))
Embeds(msg, x) == \E i \in 1..Len(msg) : msg[i] = x
ReadErred == \E n \in 1..nreads : n \in stream.errReads

\* C1: whenever the dispatch step is reached, the content of the `model` part
\* equals the content of the input stream as the caller handed it over.
C1_ModelPartIsHandedStream ==
    ReachedDispatch =>
        /\ Len(Parts(buf)) >= 1
        /\ Parts(buf)[1].content = Handed

\* C2: the stream is read exactly once, sequentially and to completion, before
\* the request is dispatched; no byte is read twice and the stream is never
\* repositioned.
C2_ReadExactlyOnce ==
    ReachedDispatch =>
        /\ seekCalls = 0
        /\ readLog = [i \in 1..(Len(stream.data) - initPos) |-> initPos + i]

C4_FilenameOrPlaceholder ==
    (entry \in {"TransformModel", "TransformModelFromRequest"} /\ Len(Parts(buf)) >= 1) =>
        /\ (filename # <<>> => Parts(buf)[1].filename = filename)
        /\ (filename = <<>> => Parts(buf)[1].filename # <<>>)

\* C5: if any read of the model stream returned an error, no HTTP request is
\* dispatched and the invocation fails with the generic error.
C5_ReadErrorNeverDispatches ==
    ReadErred =>
        /\ httpCalls = 0
        /\ (Finished => result = [bytes |-> NilBytes, err |-> DefaultErr])

\* C6: the invocation succeeds exactly when the HTTP call yields status 200, and
\* then returns the response body unmodified with a nil error; every other
\* outcome returns an error and no bytes.
C6_SuccessIffStatus200 ==
    (Finished /\ file # "failed") =>
        /\ (result.err = NilErr) <=> (httpCalls = 1 /\ resp.status = 200)
        /\ (result.err = NilErr => result.bytes = resp.body)
        /\ (result.err # NilErr => result.bytes = NilBytes)

C6_Witness ==
    /\ pc = "done"
    /\ resp = [status |-> 200, body |-> "payload"]
    /\ result = [bytes |-> "payload", err |-> NilErr]

\* C7: for a response whose status is not 200 an error and no bytes are
\* returned; the error carries the classifier's cause when it recognises one,
\* and embeds the status code and the raw body when it does not.
C7_Non200Failure ==
    (Finished /\ httpCalls = 1 /\ resp.status \notin {0, 200}) =>
        /\ result.bytes = NilBytes
        /\ result.err # NilErr
        /\ (cause # "" => Embeds(result.err, cause))
        /\ (cause = "" => /\ Embeds(result.err, ToString(resp.status))
                          /\ Embeds(result.err, resp.body))

C7_Witness ==
    /\ pc = "done"
    /\ resp = [status |-> 403, body |-> "payload"]
    /\ cause = ""
    /\ Embeds(result.err, "403")
    /\ Embeds(result.err, "payload")

\* C8: when os.Open fails, TransformModelFromFile returns the file-access error
\* at once: TransformModel is not called, no body is built, nothing is read and
\* no network call is made.
C8_OpenFailureReturnsEarly ==
    file = "failed" =>
        /\ pc = "done"
        /\ result = [bytes |-> NilBytes, err |-> OpenErr]
        /\ buf = <<>>
        /\ nreads = 0
        /\ httpCalls = 0
        /\ sent = NoReq

C8_Witness ==
    /\ file = "failed"
    /\ entry = "TransformModelFromFile"
    /\ path = <<"a", "b">>
    /\ result.err = OpenErr

IsFinalSegment(fn, p) ==
    LET named == {i \in 1..Len(p) : p[i] # Sep} IN
    IF named = {} THEN fn = <<Sep>>
    ELSE LET e == CHOOSE i \in named : \A j \in named : j <= i
             b == CHOOSE i \in 1..e :
                     /\ \A j \in i..e : p[j] # Sep
                     /\ (i = 1 \/ p[i - 1] = Sep)
         IN  fn = SubSeq(p, b, e)

\* C10: once TransformModelFromFile has opened the file, the handle stays open
\* while TransformModel runs, is closed when the call has returned, whichever
\* return statement was taken, and the filename passed on is the final segment
\* of the path.
C10_FileClosedOnReturn ==
    (entry = "TransformModelFromFile" /\ file # "failed") =>
        /\ (InTransformModel => file = "open")
        /\ (pc = "done" => file = "closed")
        /\ IsFinalSegment(filename, path)
        /\ (Len(Parts(buf)) >= 1 => Parts(buf)[1].filename = filename)

C10_Witness ==
    /\ entry = "TransformModelFromFile"
    /\ pc = "done"
    /\ file = "closed"
    /\ retAt = "copy"
    /\ nreads >= 2
    /\ path = <<"/", "a">>
    /\ filename = <<"a">>
====
